---- MODULE Spec2Model ----
(***************************************************************************)
(* State-machine model of the transaction broadcaster.                     *)
(*                                                                         *)
(* The repository holds two implementations of the same package:          *)
(*   "v2"  src/blockchain.go       (type broadcaster: tx.Factory, retry    *)
(*         by recursion with isRetry, lock held across the retry)          *)
(*   "v1"  src/unnamed/part_000    (type Broadcaster: seq/num fields,      *)
(*         retry in Broadcast after refreshSequence, lock per attempt)     *)
(* The variable impl says which of the two a behaviour runs.  Callers are  *)
(* goroutines calling Broadcast on one instance; the node is the           *)
(* environment and answers every request with any answer it can give.      *)
(***************************************************************************)
EXTENDS Integers, Sequences, FiniteSets, TLC

\* ---------------------------------------------------------------- bounds
NCallers == 2       \* goroutines calling Broadcast / PingContext concurrently
MaxSeq == 3         \* sequence numbers range over 0..MaxSeq
NodeAccNum == 1     \* the account number the node holds for the account
MaxLogLen == 3      \* tokens in a text handed to getNextSequence on its own

Callers == 1..NCallers
SeqVals == 0..MaxSeq

\* ------------------------------------------------------- node response codes
CodeOK == 0
ErrUnauthorizedCode == 4        \* sdkerrors.ErrUnauthorized.ABCICode()
ErrTxInMempoolCacheCode == 19   \* sdkerrors.ErrTxInMempoolCache.ABCICode()
ErrWrongSequenceCode == 32      \* another non-zero code a node answers with
Codes == {CodeOK, ErrUnauthorizedCode, ErrTxInMempoolCacheCode, ErrWrongSequenceCode}

\* ------------------------------------------------------------ raw log text
\* A text is a sequence of tokens: an ordinary character, a newline, or the
\* phrase "account sequence mismatch, expected <n>, got <m>:" (one token,
\* carrying n; the regular expression does not capture m).
ChX == <<"x", 0>>
ChNL == <<"nl", 0>>
Phrase(n) == <<"mm", n>>
IsPhrase(t) == t[1] = "mm"

\* The texts a node puts in a raw log or an estimation error: nothing, other
\* text, or the mismatch sentence, which the node ends with the name of the
\* error (" incorrect account sequence") and may or may not put text before.
NodeLogs ==
    {<<>>, <<ChX>>} \cup
    {pre \o <<Phrase(n), ChX>> : pre \in {<<>>, <<ChX>>}, n \in SeqVals}

\* accountSequenceMismatchErrorRegExp:
\*   .+account sequence mismatch, expected (\d+), got \d+:.+
\* "." matches any character but a newline, so a match lies within one line,
\* with at least one character before the phrase and one after it.
Matchable(m, i) ==
    /\ IsPhrase(m[i])
    /\ i > 1 /\ m[i - 1] # ChNL
    /\ i < Len(m) /\ m[i + 1] # ChNL

\* i and j lie on the same line of m
SameLine(m, i, j) ==
    \A k \in 1..Len(m) : (k >= i /\ k <= j) \/ (k >= j /\ k <= i) => m[k] # ChNL

\* FindStringSubmatch: the leftmost match, and of the matches starting there
\* the one the greedy ".+" prefers: the first line holding a matchable phrase,
\* and the last matchable phrase of that line.  0 stands for "no match".
FindStringSubmatch(m) ==
    LET ms == {i \in 1..Len(m) : Matchable(m, i)}
    IN IF ms = {} THEN 0
       ELSE LET first == CHOOSE i \in ms : \A j \in ms : i <= j
                line == {i \in ms : SameLine(m, first, i)}
            IN CHOOSE i \in line : \A j \in line : j <= i

getNextSequence(m) ==
    LET i == FindStringSubmatch(m)
    IN IF i = 0 THEN 0 ELSE m[i][2]

\* ------------------------------------------------------------------ errors
\* An error is the chain of its messages, outermost first; fmt.Errorf with %w
\* prepends a message to the chain it wraps.  The empty chain is nil.
Nil == <<>>
Pending == <<"pending">>
Wrap(msg, e) == <<msg>> \o e
ErrTxInMempoolCache == <<"tx is already in mempool cache">>
errInvalidSequence == <<"invalid sequence">>
NodeError == <<"node error">>
\* errors.Is: target is e or one of the errors e wraps
ErrorsIs(e, target) ==
    \E i \in 1..Len(e) : SubSeq(e, i, Len(e)) = target

\* ------------------------------------------------------------------- state
VARIABLES
    impl,           \* "v2": src/blockchain.go, "v1": src/unnamed/part_000
    gas,            \* cfg.Gas: 0 = estimate by a dry run
    seq,            \* b.txf.Sequence() (v2), b.seq (v1)
    num,            \* b.txf.AccountNumber() (v2), b.num (v1)
    mu,             \* b.mu: 0 = unlocked, else the caller holding it
    call,           \* per caller: the frame of its Broadcast call
    okSeq,          \* history: the sequence New stored plus the number of
                    \* sends answered with code 0 since
    resynced,       \* history: the sequence was overwritten by a correction
    unlockedWrite,  \* history: seq/num was written by a caller not holding mu
    ping,           \* per caller: its PingContext call and the goroutine it starts
    parse           \* a call of getNextSequence: its argument and its result

bvars == <<impl, gas, seq, num, mu, call, okSeq, resynced, unlockedWrite>>
vars == <<bvars, ping, parse>>

NoLog == <<<<"none", 0>>>>
TransportError == -1

\* the frame of a caller that is not inside Broadcast
IdleFrame ==
    [pc |-> "idle", isRetry |-> FALSE, attempt |-> 0, txSeq |-> 0,
     err |-> Pending, codes |-> <<>>, firstLog |-> NoLog, tmp |-> 0,
     fetched |-> FALSE]

\* a caller that has not called PingContext
IdlePing ==
    [pc |-> "idle", go |-> "none", done |-> FALSE, doneAtCall |-> FALSE,
     val |-> Pending, res |-> Pending]

\* getNextSequence has not been called
NoParse == [text |-> <<>>, called |-> FALSE, out |-> 0]

\* New: refreshSequence has stored the node's account number and sequence.
Init ==
    /\ impl \in {"v1", "v2"}
    /\ gas \in IF impl = "v2" THEN {0, 1} ELSE {0}
    /\ num = NodeAccNum
    /\ seq \in SeqVals
    /\ okSeq = seq
    /\ mu = 0
    /\ call = [p \in Callers |-> IdleFrame]
    /\ resynced = FALSE
    /\ unlockedWrite = FALSE
    /\ ping = [p \in Callers |-> IdlePing]
    /\ parse = NoParse

Set(p, f) == call' = [call EXCEPT ![p] = f]

\* a store to the sequence by caller p
WriteSeq(p, s) ==
    /\ seq' = s
    /\ unlockedWrite' = (unlockedWrite \/ mu # p)

\* ------------------------------------------------- Broadcast, both versions
\* Broadcast(msgs, memo): a caller that is not inside a call starts one.
Broadcast(p) ==
    /\ call[p].pc = "idle"
    /\ Set(p, [IdleFrame EXCEPT !.pc = IF impl = "v2" THEN "lock" ELSE "read"])
    /\ UNCHANGED <<ping, parse, impl, gas, seq, num, mu, okSeq, resynced, unlockedWrite>>

\* Lock as it would be if the mutex were never taken
LockNotTaken(p) ==
    /\ call[p].pc = "lock"
    /\ Set(p, [call[p] EXCEPT !.pc = IF impl = "v2" THEN "start" ELSE "prepare"])
    /\ UNCHANGED <<ping, parse, impl, gas, seq, num, mu, okSeq, resynced, unlockedWrite>>

\* b.mu.Lock(): blocks until the mutex is free
Lock(p) ==
    /\ call[p].pc = "lock"
    /\ mu = 0
    /\ mu' = p
    /\ Set(p, [call[p] EXCEPT !.pc = IF impl = "v2" THEN "start" ELSE "prepare"])
    /\ UNCHANGED <<ping, parse, impl, gas, seq, num, okSeq, resynced, unlockedWrite>>

\* an attempt ends with error e: the frame heads for its return
Fail(p, e) ==
    /\ Set(p, [call[p] EXCEPT !.pc = "ret", !.err = e])
    /\ UNCHANGED <<ping, parse, impl, gas, seq, num, mu, okSeq, resynced, unlockedWrite>>

\* a step of the attempt that either succeeds or is fatal
Step(p, at, next, msg, cause) ==
    /\ call[p].pc = at
    /\ \/ /\ Set(p, [call[p] EXCEPT !.pc = next])
          /\ UNCHANGED <<ping, parse, impl, gas, seq, num, mu, okSeq, resynced, unlockedWrite>>
       \/ Fail(p, Wrap(msg, cause))

\* OnSendError as it would be if a transport failure started another attempt
OnSendErrorRetried(p) ==
    /\ Set(p, [call[p] EXCEPT !.pc = IF impl = "v2" THEN "start" ELSE "read",
                              !.codes = Append(@, TransportError),
                              !.err = Wrap("failed to broadcast tx", NodeError)])
    /\ UNCHANGED <<ping, parse, impl, gas, seq, num, mu, okSeq, resynced, unlockedWrite>>

\* b.ctx.BroadcastTx returned an error
OnSendError(p) ==
    /\ Set(p, [call[p] EXCEPT !.pc = "ret", !.codes = Append(@, TransportError),
                              !.err = Wrap("failed to broadcast tx", NodeError)])
    /\ UNCHANGED <<ping, parse, impl, gas, seq, num, mu, okSeq, resynced, unlockedWrite>>

\* OnMempoolCache as it would be if the code were treated like any other
OnMempoolCacheGeneric(p) ==
    /\ Set(p, [call[p] EXCEPT !.pc = "ret", !.codes = Append(@, ErrTxInMempoolCacheCode),
                              !.err = <<"failed to broadcast tx: response">>])
    /\ UNCHANGED <<ping, parse, impl, gas, seq, num, mu, okSeq, resynced, unlockedWrite>>

\* sdkerrors.ErrTxInMempoolCache.ABCICode() == resp.Code
OnMempoolCache(p) ==
    /\ Set(p, [call[p] EXCEPT !.pc = "ret", !.codes = Append(@, ErrTxInMempoolCacheCode),
                              !.err = ErrTxInMempoolCache])
    /\ UNCHANGED <<ping, parse, impl, gas, seq, num, mu, okSeq, resynced, unlockedWrite>>

\* Broadcast: if err != nil { return nil, fmt.Errorf("failed to broadcast: %w", err) }
BroadcastResult(e) == IF e = Nil THEN Nil ELSE Wrap("failed to broadcast", e)

\* ------------------------------------------------------ src/blockchain.go
\* txf := b.txf.WithMemo(memo); gas adjustment; if txf.Gas() == 0 ...
Begin(p) ==
    /\ impl = "v2"
    /\ call[p].pc = "start"
    /\ Set(p, [call[p] EXCEPT !.pc = IF gas = 0 THEN "gas" ELSE "build",
                              !.attempt = @ + 1, !.txSeq = seq])
    /\ UNCHANGED <<ping, parse, impl, gas, seq, num, mu, okSeq, resynced, unlockedWrite>>

\* MayRetry as it would be if the retry ignored isRetry
MayRetryAlways(isRetry) == TRUE

\* if !isRetry
MayRetry(isRetry) == ~isRetry

\* Retry as it would be if the lock were given up before the second attempt
RetryUnlocked(p, text, code) ==
    LET s == getNextSequence(text)
    IN /\ IF s # 0
          THEN WriteSeq(p, s) /\ resynced' = TRUE
          ELSE UNCHANGED <<seq, resynced, unlockedWrite>>
       /\ mu' = 0
       /\ Set(p, [call[p] EXCEPT !.pc = "start", !.isRetry = TRUE,
                                 !.codes = @ \o code,
                                 !.firstLog = IF call[p].attempt = 1 THEN text ELSE @])
       /\ UNCHANGED <<ping, parse, impl, gas, num, okSeq>>

\* Retry as it would be without the test for a non-zero extracted sequence
RetryBlind(p, text, code) ==
    /\ WriteSeq(p, getNextSequence(text))
    /\ resynced' = TRUE
    /\ Set(p, [call[p] EXCEPT !.pc = "start", !.isRetry = TRUE, !.codes = @ \o code,
                              !.firstLog = IF call[p].attempt = 1 THEN text ELSE @])
    /\ UNCHANGED <<ping, parse, impl, gas, num, mu, okSeq>>

\* if seq := getNextSequence(text); seq != 0 { b.txf = b.txf.WithSequence(seq) }
\* return b.broadcast(msgs, memo, true)
Retry(p, text, code) ==
    LET s == getNextSequence(text)
    IN /\ IF s # 0
          THEN WriteSeq(p, s) /\ resynced' = TRUE
          ELSE UNCHANGED <<seq, resynced, unlockedWrite>>
       /\ Set(p, [call[p] EXCEPT !.pc = "start", !.isRetry = TRUE,
                                 !.codes = @ \o code,
                                 !.firstLog = IF call[p].attempt = 1 THEN text ELSE @])
       /\ UNCHANGED <<ping, parse, impl, gas, num, mu, okSeq>>

\* tx.CalculateGas returned an error whose text is text
OnEstimateError(p, text) ==
    IF MayRetry(call[p].isRetry)
    THEN Retry(p, text, <<>>)
    ELSE Fail(p, Wrap("failed to calculate gas", NodeError))

CalculateGas(p) ==
    /\ impl = "v2"
    /\ call[p].pc = "gas"
    /\ \/ /\ Set(p, [call[p] EXCEPT !.pc = "build"])
          /\ UNCHANGED <<ping, parse, impl, gas, seq, num, mu, okSeq, resynced, unlockedWrite>>
       \/ \E text \in NodeLogs : OnEstimateError(p, text)

BuildUnsignedTx(p) ==
    impl = "v2" /\ Step(p, "build", "sign", "failed to build tx", <<"local error">>)

Sign(p) ==
    impl = "v2" /\ Step(p, "sign", "encode", "failed to sign tx", <<"local error">>)

Encode(p) ==
    impl = "v2" /\ Step(p, "encode", "send", "failed to encode tx", <<"local error">>)

\* NextSeq as it would be if the increment were lost
NextSeqSame(s) == s

\* NextSeq as it would be with a counter too narrow for MaxSeq
NextSeqWrapped(s) == (s + 1) % MaxSeq

\* b.txf.Sequence() + 1
NextSeq(s) == s + 1

\* resp.Code == 0: b.txf = b.txf.WithSequence(b.txf.Sequence() + 1)
\* (the guards keep seq and okSeq within 0..MaxSeq)
OnAccepted(p) ==
    /\ seq < MaxSeq /\ okSeq < MaxSeq
    /\ WriteSeq(p, NextSeq(seq))
    /\ okSeq' = okSeq + 1
    /\ Set(p, [call[p] EXCEPT !.pc = "ret", !.codes = Append(@, CodeOK), !.err = Nil])
    /\ UNCHANGED <<ping, parse, impl, gas, num, mu, resynced>>

\* any other non-zero code, with raw log text
OnRejected(p, code, text) ==
    IF MayRetry(call[p].isRetry)
    THEN Retry(p, text, <<code>>)
    ELSE /\ Set(p, [call[p] EXCEPT !.pc = "ret", !.codes = Append(@, code),
                                   !.err = <<"failed to broadcast tx: response">>])
         /\ UNCHANGED <<ping, parse, impl, gas, seq, num, mu, okSeq, resynced, unlockedWrite>>

BroadcastTx(p) ==
    /\ impl = "v2"
    /\ call[p].pc = "send"
    /\ \/ OnSendError(p)
       \/ OnAccepted(p)
       \/ OnMempoolCache(p)
       \/ \E code \in Codes \ {CodeOK, ErrTxInMempoolCacheCode}, text \in NodeLogs :
              OnRejected(p, code, text)

\* Return as it would be if an error return left the mutex locked
ReturnKeepsLock(p) ==
    /\ impl = "v2"
    /\ call[p].pc = "ret"
    /\ mu' = IF call[p].err = Nil THEN 0 ELSE mu
    /\ Set(p, IdleFrame)
    /\ UNCHANGED <<ping, parse, impl, gas, seq, num, okSeq, resynced, unlockedWrite>>

\* the deferred b.mu.Unlock() of the outermost frame; Broadcast hands
\* BroadcastResult(err) to its caller
Return(p) ==
    /\ impl = "v2"
    /\ call[p].pc = "ret"
    /\ mu' = 0
    /\ Set(p, IdleFrame)
    /\ UNCHANGED <<ping, parse, impl, gas, seq, num, okSeq, resynced, unlockedWrite>>

StepV2(p) ==
    \/ Begin(p)
    \/ CalculateGas(p)
    \/ BuildUnsignedTx(p)
    \/ Sign(p)
    \/ Encode(p)
    \/ BroadcastTx(p)
    \/ Return(p)

\* -------------------------------------------------- src/unnamed/part_000
\* txBldr := auth.NewTxBuilder(b.enc, b.num, b.seq, ...): read before the lock
NewTxBuilder(p) ==
    /\ impl = "v1"
    /\ call[p].pc = "read"
    /\ Set(p, [call[p] EXCEPT !.pc = "lock", !.attempt = @ + 1, !.txSeq = seq,
                              !.fetched = FALSE])
    /\ UNCHANGED <<ping, parse, impl, gas, seq, num, mu, okSeq, resynced, unlockedWrite>>

\* utils.PrepareTxBuilder: fails, or returns the builder, with the node's
\* sequence in place of a sequence of 0 (fetched records that it did)
PrepareTxBuilder(p) ==
    /\ impl = "v1"
    /\ call[p].pc = "prepare"
    /\ \/ Fail(p, Wrap("failed to prepare builder", NodeError))
       \/ /\ \E s \in IF call[p].txSeq = 0 THEN SeqVals ELSE {call[p].txSeq} :
                 Set(p, [call[p] EXCEPT !.pc = "gas", !.txSeq = s,
                                        !.fetched = (call[p].txSeq = 0)])
          /\ UNCHANGED <<ping, parse, impl, gas, seq, num, mu, okSeq, resynced, unlockedWrite>>

EnrichWithGas(p) ==
    impl = "v1" /\ Step(p, "gas", "sign", "failed to calculate gas", NodeError)

BuildAndSign(p) ==
    impl = "v1" /\ Step(p, "sign", "send", "failed to build and sign tx", <<"local error">>)

\* resp.Code != 0, neither the mempool-cache code
OnRejectedV1(p, code) ==
    /\ Set(p, [call[p] EXCEPT !.pc = "ret", !.codes = Append(@, code),
                              !.err = IF code = ErrUnauthorizedCode
                                      THEN errInvalidSequence
                                      ELSE <<"failed to broadcast tx: response">>])
    /\ UNCHANGED <<ping, parse, impl, gas, seq, num, mu, okSeq, resynced, unlockedWrite>>

\* resp.Code == 0: on to b.seq++ (the guard keeps okSeq within 0..MaxSeq)
OnAcceptedV1(p) ==
    /\ okSeq < MaxSeq
    /\ Set(p, [call[p] EXCEPT !.pc = "inc", !.codes = Append(@, CodeOK)])
    /\ UNCHANGED <<ping, parse, impl, gas, seq, num, mu, okSeq, resynced, unlockedWrite>>

BroadcastTxV1(p) ==
    /\ impl = "v1"
    /\ call[p].pc = "send"
    /\ \/ OnSendError(p)
       \/ OnAcceptedV1(p)
       \/ OnMempoolCache(p)
       \/ \E code \in Codes \ {CodeOK, ErrTxInMempoolCacheCode} : OnRejectedV1(p, code)

\* b.seq++, the load
IncLoad(p) ==
    /\ impl = "v1"
    /\ call[p].pc = "inc"
    /\ seq < MaxSeq
    /\ Set(p, [call[p] EXCEPT !.pc = "store", !.tmp = seq])
    /\ UNCHANGED <<ping, parse, impl, gas, seq, num, mu, okSeq, resynced, unlockedWrite>>

\* b.seq++, the store; return &resp, nil
IncStore(p) ==
    /\ impl = "v1"
    /\ call[p].pc = "store"
    /\ WriteSeq(p, NextSeq(call[p].tmp))
    /\ okSeq' = okSeq + 1
    /\ Set(p, [call[p] EXCEPT !.pc = "ret", !.tmp = 0, !.err = Nil])
    /\ UNCHANGED <<ping, parse, impl, gas, num, mu, resynced>>

\* WantsRefresh as it would be if every invalid-sequence error started a refresh
WantsRefreshAlways(f) == ErrorsIs(f.err, errInvalidSequence)

\* if errors.Is(err, errInvalidSequence), after the first broadcast only
WantsRefresh(f) == f.attempt = 1 /\ ErrorsIs(f.err, errInvalidSequence)

\* the deferred b.mu.Unlock() of broadcast; back in Broadcast, either on to
\* refreshSequence or BroadcastResult(err) is handed to the caller
Unlock(p) ==
    /\ impl = "v1"
    /\ call[p].pc = "ret"
    /\ mu' = 0
    /\ Set(p, IF WantsRefresh(call[p]) THEN [call[p] EXCEPT !.pc = "refresh"] ELSE IdleFrame)
    /\ UNCHANGED <<ping, parse, impl, gas, seq, num, okSeq, resynced, unlockedWrite>>

\* refreshSequence: b.seq, b.num = 0, 0
RefreshZero(p) ==
    /\ impl = "v1"
    /\ call[p].pc = "refresh"
    /\ WriteSeq(p, 0)
    /\ num' = 0
    /\ resynced' = TRUE
    /\ Set(p, [call[p] EXCEPT !.pc = "query"])
    /\ UNCHANGED <<ping, parse, impl, gas, mu, okSeq>>

\* refreshSequence: b.num, b.seq, err = GetAccountNumberSequence(...), which
\* returns 0, 0 and an error when it fails; then the second broadcast, or
\* return nil, fmt.Errorf("failed to refresh sequence: %w", err)
RefreshQuery(p) ==
    /\ impl = "v1"
    /\ call[p].pc = "query"
    /\ \/ /\ \E s \in SeqVals : WriteSeq(p, s)
          /\ num' = NodeAccNum
          /\ Set(p, [call[p] EXCEPT !.pc = "read"])
       \/ /\ WriteSeq(p, 0)
          /\ num' = 0
          /\ Set(p, [call[p] EXCEPT !.pc = "fin",
                                    !.err = Wrap("failed to refresh sequence", NodeError)])
    /\ UNCHANGED <<ping, parse, impl, gas, mu, okSeq, resynced>>

\* Broadcast returns the refresh error
Finish(p) ==
    /\ impl = "v1"
    /\ call[p].pc = "fin"
    /\ Set(p, IdleFrame)
    /\ UNCHANGED <<ping, parse, impl, gas, seq, num, mu, okSeq, resynced, unlockedWrite>>

StepV1(p) ==
    \/ NewTxBuilder(p)
    \/ PrepareTxBuilder(p)
    \/ EnrichWithGas(p)
    \/ BuildAndSign(p)
    \/ BroadcastTxV1(p)
    \/ IncLoad(p)
    \/ IncStore(p)
    \/ Unlock(p)
    \/ RefreshZero(p)
    \/ RefreshQuery(p)
    \/ Finish(p)

\* ----------------------------------- PingContext, src/unnamed/part_000
Canceled == <<"context canceled">>

SetPing(p, f) == ping' = [ping EXCEPT ![p] = f] /\ UNCHANGED <<bvars, parse>>

\* PingContext(ctx): err := make(chan error); go func() { err <- b.Ping() }()
\* The context is one its owner has cancelled already, or cancels later.
PingContext(p) ==
    /\ ping[p].pc = "idle"
    /\ \E c \in BOOLEAN :
           SetPing(p, [IdlePing EXCEPT !.pc = "select", !.go = "ping",
                                       !.done = c, !.doneAtCall = c])

\* the owner of the context cancels it
Cancel(p) ==
    /\ ping[p].pc = "select"
    /\ ~ping[p].done
    /\ SetPing(p, [ping[p] EXCEPT !.done = TRUE])

\* Ping: b.ctx.GetNode()
GetNode(p) ==
    /\ ping[p].go = "ping"
    /\ \/ SetPing(p, [ping[p] EXCEPT !.go = "abci"])
       \/ SetPing(p, [ping[p] EXCEPT !.go = "send",
                                     !.val = Wrap("failed to get rpc client", <<"local error">>)])

\* Ping: c.ABCIInfo() returns once the node has answered
ABCIInfo(p) ==
    /\ ping[p].go = "abci"
    /\ \E e \in {Nil, Wrap("failed to check node status", NodeError)} :
           SetPing(p, [ping[p] EXCEPT !.go = "send", !.val = e])

\* select, case <-ctx.Done(): return ctx.Err()
SelectDone(p) ==
    /\ ping[p].pc = "select"
    /\ ping[p].done
    /\ SetPing(p, [ping[p] EXCEPT !.pc = "returned", !.res = Canceled])

\* select, case e := <-err: return e; the goroutine's send completes
SelectRecv(p) ==
    /\ ping[p].pc = "select"
    /\ ping[p].go = "send"
    /\ SetPing(p, [ping[p] EXCEPT !.pc = "returned", !.res = ping[p].val, !.go = "exit"])

StepPing(p) ==
    \/ PingContext(p)
    \/ Cancel(p)
    \/ GetNode(p)
    \/ ABCIInfo(p)
    \/ SelectDone(p)
    \/ SelectRecv(p)

\* ---------------------------------------------------------- specifications
\* concurrent callers of the broadcaster of src/blockchain.go
InitV2 == Init /\ impl = "v2"
Next == \E p \in Callers : Broadcast(p) \/ Lock(p) \/ StepV2(p)
Spec == InitV2 /\ [][Next]_vars

\* concurrent callers of the Broadcaster of src/unnamed/part_000
InitV1 == Init /\ impl = "v1"
NextV1 == \E p \in Callers : Broadcast(p) \/ Lock(p) \/ StepV1(p)
SpecV1 == InitV1 /\ [][NextV1]_vars

\* the same under fair scheduling, with gas estimation configured (cfg.Gas = 0,
\* the path with every step): a goroutine that can take a step of its call
\* takes it (every node call returns), and a goroutine waiting in b.mu.Lock()
\* gets the mutex if it is free again and again (sync.Mutex hands the mutex to
\* a starving waiter)
Fairness == \A p \in Callers : WF_vars(StepV2(p)) /\ SF_vars(Lock(p))
FairInit == InitV2 /\ gas = 0
FairSpec == FairInit /\ [][Next]_vars /\ Fairness

\* one caller, one call after the other, of either version
NextSeq1 == Broadcast(1) \/ Lock(1) \/ StepV1(1) \/ StepV2(1)
SpecSeq == Init /\ [][NextSeq1]_vars

\* concurrent PingContext calls on the Broadcaster of src/unnamed/part_000
NextPing == \E p \in Callers : StepPing(p)
SpecPing == InitV1 /\ [][NextPing]_vars

\* ------------------------------------ getNextSequence, src/blockchain.go
\* the arguments: every text of up to MaxLogLen tokens
Tokens == {ChX, ChNL} \cup {Phrase(n) : n \in SeqVals}
Texts == UNION {[1..n -> Tokens] : n \in 0..MaxLogLen}

\* getNextSequence(parse.text) is called and returns
CallGetNextSequence ==
    /\ ~parse.called
    /\ parse' = [parse EXCEPT !.called = TRUE, !.out = getNextSequence(parse.text)]
    /\ UNCHANGED <<bvars, ping>>

\* getNextSequence on its own, on any text
InitParse ==
    /\ impl = "v2" /\ gas = 0 /\ num = NodeAccNum /\ seq = 0 /\ okSeq = 0 /\ mu = 0
    /\ call = [p \in Callers |-> IdleFrame]
    /\ resynced = FALSE /\ unlockedWrite = FALSE
    /\ ping = [p \in Callers |-> IdlePing]
    /\ parse \in {[NoParse EXCEPT !.text = t] : t \in Texts}
NextParse == CallGetNextSequence
SpecParse == InitParse /\ [][NextParse]_vars

\* ------------------------------------------------------------------ claims
Range(f) == {f[i] : i \in DOMAIN f}
Last(f) == f[Len(f)]

\* caller p is between taking the lock and the return of its Broadcast call
InBroadcast(p) == call[p].pc \notin {"idle", "lock"}

\* the expected sequences the mismatch sentences of a text name
ExpectedIn(text) == {text[i][2] : i \in {j \in 1..Len(text) : IsPhrase(text[j])}}

\* C1: Broadcast calls on one instance of src/blockchain.go are serialized:
\* while one caller is anywhere between the start of its first attempt and the
\* return of its call (its retry included), it holds the mutex and no other
\* caller is at any step of an attempt.
C1_Serialized ==
    \A p \in Callers :
        InBroadcast(p) => mu = p /\ \A q \in Callers \ {p} : ~InBroadcast(q)

\* a caller is sending its retried attempt while another waits for the lock
C1_Witness ==
    \E p, q \in Callers :
        /\ call[p].isRetry /\ call[p].pc = "send"
        /\ call[q].pc = "lock"

\* C2: a Broadcast call makes at most two attempts and two sends; when the
\* send of the first attempt was rejected with a mismatch and the retried send
\* is rejected again, the call returns an error after exactly two sends.
C2_AtMostOneRetry ==
    \A p \in Callers :
        /\ call[p].attempt <= 2
        /\ Len(call[p].codes) <= 2
        /\ Len(call[p].codes) = 2 => call[p].pc = "ret"
        /\ (call[p].pc = "ret" /\ Len(call[p].codes) = 2 /\ Last(call[p].codes) # CodeOK)
               => BroadcastResult(call[p].err) # Nil

\* both sends of a call were rejected, the first with a mismatch sentence
C2_Witness ==
    \E p \in Callers :
        /\ call[p].pc = "ret"
        /\ call[p].codes = <<ErrWrongSequenceCode, ErrWrongSequenceCode>>
        /\ ExpectedIn(call[p].firstLog) # {}
        /\ call[p].err # Nil

\* C3, as claimed: when the failure of the first attempt names expected
\* sequence S, the retried attempt builds and sends with sequence S, and when
\* the retry is accepted the local sequence is S + 1.
C3_Claim ==
    \A p \in Callers : \A S \in SeqVals :
        (call[p].isRetry /\ ExpectedIn(call[p].firstLog) = {S}) =>
            /\ call[p].pc \in {"gas", "build", "sign", "encode", "send"} => call[p].txSeq = S
            /\ (call[p].pc = "ret" /\ call[p].err = Nil) => seq = S + 1

C5_Inv ==
    \A p \in Callers :
        ErrTxInMempoolCacheCode \in Range(call[p].codes) =>
            /\ call[p].pc = "ret"
            /\ Last(call[p].codes) = ErrTxInMempoolCacheCode
            /\ ~WantsRefresh(call[p])
            /\ ErrorsIs(BroadcastResult(call[p].err), ErrTxInMempoolCache)

C5_Step ==
    \A p \in Callers :
        /\ ErrTxInMempoolCacheCode \in Range(call'[p].codes) => seq' = seq
        /\ ErrTxInMempoolCacheCode \in Range(call[p].codes) => call'[p].pc \in {"ret", "idle"}

\* C5: once a send is answered with the mempool-cache code, on the first or
\* on the retried attempt, nothing more is sent, no refresh or retry follows,
\* the call returns an error that errors.Is ErrTxInMempoolCache, and the
\* sequence stays as it is.
C5_MempoolCache == []C5_Inv /\ [][C5_Step]_vars

\* the retried attempt was answered with the mempool-cache code
C5_Witness ==
    \E p \in Callers :
        /\ call[p].attempt = 2
        /\ Len(call[p].codes) = 2
        /\ Last(call[p].codes) = ErrTxInMempoolCacheCode

\* C6, as claimed: a retry is under way only if getNextSequence extracted a
\* non-zero sequence from the failure of the first attempt.
C6_Claim ==
    \A p \in Callers :
        call[p].isRetry => getNextSequence(call[p].firstLog) # 0

\* the failures C7 is about: build, sign, encode, and the transport of the send
FatalMsgs ==
    {"failed to build tx", "failed to sign tx", "failed to encode tx",
     "failed to build and sign tx", "failed to broadcast tx"}
Fatal(e) == Len(e) > 1 /\ e[1] \in FatalMsgs

\* where a call stands once one of these failures has occurred
C7_Inv ==
    \A p \in Callers :
        Fatal(call[p].err) =>
            /\ call[p].pc = "ret"
            /\ ~WantsRefresh(call[p])
            /\ BroadcastResult(call[p].err) # Nil
            /\ impl = "v2" => seq = call[p].txSeq

C7_Step ==
    \A p \in Callers :
        /\ Fatal(call'[p].err) => seq' = seq /\ num' = num /\ call'[p].attempt = call[p].attempt
        /\ Fatal(call[p].err) => call'[p].pc \in {"ret", "idle"}

\* C7: an attempt that fails to build, sign, encode or transport its transaction
\* goes straight to its return with that error: no further attempt or refresh,
\* and the local sequence and account number are as the attempt found them.
C7_FatalFailures == []C7_Inv /\ [][C7_Step]_vars

\* the send of a retried attempt failed in transport
C7_Witness ==
    \E p \in Callers :
        /\ call[p].attempt = 2
        /\ call[p].pc = "ret"
        /\ call[p].codes # <<>>
        /\ Last(call[p].codes) = TransportError
        /\ Fatal(call[p].err)

\* C8, as claimed: PingContext called with a cancelled context returns the
\* context's error.
C8_Claim ==
    \A p \in Callers :
        (ping[p].pc = "returned" /\ ping[p].doneAtCall) => ping[p].res = Canceled

\* no store was made without the mutex; the account number is the one New stored
C9_Inv == ~unlockedWrite /\ num = NodeAccNum

C9_Step ==
    (seq' # seq \/ num' # num) => mu # 0 /\ mu' = mu /\ InBroadcast(mu)

\* C9: in src/blockchain.go, after New, the sequence and account number are
\* written only by the caller that holds the mutex, inside its Broadcast call
\* (refreshSequence, the other writer, runs in New only).
C9_WritesUnderLock == []C9_Inv /\ [][C9_Step]_vars

\* a correction and an increment have been written, the lock still held
C9_Witness ==
    \E p \in Callers :
        /\ mu = p
        /\ resynced
        /\ call[p].pc = "ret" /\ call[p].err = Nil

\* caller p is between its rejected first attempt and the end of its retry
InRetryWindow(p) == call[p].pc \in {"refresh", "query"} \/ call[p].attempt = 2

\* C10, as claimed: in src/unnamed/part_000, from the first attempt that
\* reports an invalid sequence through refreshSequence to the end of the
\* retried attempt, no other caller is inside broadcast's locked section.
C10_Claim ==
    \A p, q \in Callers :
        (p # q /\ InRetryWindow(p)) => mu # q

\* C11, as claimed: in src/unnamed/part_000, under any interleaving of
\* concurrent Broadcast calls, the sequence a transaction is sent with (a
\* builder sequence that PrepareTxBuilder left as it was read) is the value of
\* the local sequence at the moment its caller holds the lock and sends.
C11_Claim ==
    \A p \in Callers :
        (call[p].pc = "send" /\ mu = p /\ ~call[p].fetched) => call[p].txSeq = seq

\* C12, as claimed: no step of src/blockchain.go lowers the local sequence.
C12_Claim == [][seq' >= seq]_vars

\* caller p's first attempt failed and the step stores the extracted sequence
C12_Correction(p) ==
    /\ ~call[p].isRetry /\ call'[p].isRetry
    /\ getNextSequence(call'[p].firstLog) # 0
    /\ seq' = getNextSequence(call'[p].firstLog)

\* C12, amended: the local sequence is lowered only by a sequence-mismatch
\* correction, which stores the expected sequence the node reported.
C12_NeverDecreases ==
    [][seq' < seq => \E p \in Callers : C12_Correction(p)]_vars

\* a correction has just stored a sequence below the one the call started with
C12_Witness ==
    \E p \in Callers :
        /\ call[p].isRetry /\ call[p].pc = "start"
        /\ seq = getNextSequence(call[p].firstLog)
        /\ seq < call[p].txSeq

\* who holds the mutex: the caller inside broadcast, its retry included
C13_Inv ==
    /\ \A p \in Callers :
           /\ InBroadcast(p) <=> mu = p
           /\ call[p].isRetry => InBroadcast(p)
    /\ (\E p \in Callers : call[p].pc # "idle") =>
           \E p \in Callers : ENABLED (Lock(p) \/ StepV2(p))

\* the mutex is taken at the non-retry entry only, and given up at the return
C13_Step ==
    \A p \in Callers :
        /\ (mu # p /\ mu' = p) => mu = 0 /\ call[p].pc = "lock" /\ ~call'[p].isRetry
        /\ (mu = p /\ mu' # p) => mu' = 0 /\ call[p].pc = "ret" /\ call'[p].pc = "idle"
        /\ (call[p].pc = "ret" /\ call'[p].pc # "ret") => mu = p /\ mu' = 0

\* every caller waiting for the mutex gets it, and every call returns
C13_Live ==
    \A p \in Callers :
        /\ (call[p].pc = "lock") ~> (mu = p)
        /\ (call[p].pc # "idle") ~> (call[p].pc = "idle")

\* C13: in src/blockchain.go the mutex is acquired at the non-retry entry only,
\* the retry runs with it held and never waits for it, every return gives it
\* up; no execution is stuck, and under fair scheduling, every node call
\* returning, each caller waiting for the mutex gets it and its call returns.
C13_LockDiscipline == []C13_Inv /\ [][C13_Step]_vars /\ C13_Live

\* a retried attempt has failed and heads for its return with the mutex held,
\* while another caller waits for it
C13_Witness ==
    \E p, q \in Callers :
        /\ call[p].isRetry /\ call[p].pc = "ret" /\ call[p].err # Nil /\ mu = p
        /\ call[q].pc = "lock"

\* where a call of src/unnamed/part_000 stands around its refresh
C14_Inv ==
    impl = "v1" =>
        \A p \in Callers :
            /\ call[p].attempt <= 2
            /\ Len(call[p].codes) <= 2
            /\ call[p].pc \in {"refresh", "query", "fin"} =>
                   call[p].attempt = 1 /\ call[p].codes = <<ErrUnauthorizedCode>>
            /\ call[p].pc = "fin" =>
                   call[p].err = Wrap("failed to refresh sequence", NodeError)
            /\ call[p].attempt = 2 =>
                   call[p].codes # <<>> /\ call[p].codes[1] = ErrUnauthorizedCode
            /\ (call[p].pc = "ret" /\ Len(call[p].codes) = 2 /\ Last(call[p].codes) # CodeOK) =>
                   BroadcastResult(call[p].err) # Nil

C14_Step ==
    impl = "v1" =>
        \A p \in Callers :
            call'[p] # call[p] =>
                /\ (call[p].pc = "ret" /\ call[p].attempt = 1
                        /\ call[p].codes = <<ErrUnauthorizedCode>>) => call'[p].pc = "refresh"
                /\ call'[p].pc = "refresh" => call[p].attempt = 1
                /\ call[p].pc = "query" => call'[p].pc \in {"read", "fin"}
                /\ call[p].pc = "fin" => call'[p].pc = "idle"
                /\ (call[p].pc = "ret" /\ call[p].attempt = 2) => call'[p].pc = "idle"

\* C14: in src/unnamed/part_000, an attempt rejected with the unauthorized code
\* is followed by refreshSequence and one retry: a failed refresh returns its
\* error with no second send, and a retried attempt that is rejected again
\* returns an error after exactly two sends, with no second refresh and no
\* third send.
C14_RefreshOnce == []C14_Inv /\ [][C14_Step]_vars

\* both the first and the retried attempt were rejected as unauthorized
C14_Witness ==
    /\ impl = "v1"
    /\ call[1].pc = "ret" /\ call[1].attempt = 2
    /\ call[1].codes = <<ErrUnauthorizedCode, ErrUnauthorizedCode>>

\* every mismatch sentence of the text is followed by an ordinary character
FollowedByText(text) ==
    \A i \in 1..Len(text) :
        IsPhrase(text[i]) => i < Len(text) /\ text[i + 1] = ChX

\* C15, as claimed: getNextSequence returns N for a text that contains the
\* sentence "account sequence mismatch, expected N, got M:" with text after
\* the colon (as in "account sequence mismatch, expected 42, got 40: ..."),
\* and 0 for a text without the sentence.
C15_Claim ==
    parse.called =>
        /\ \A N \in SeqVals :
               (ExpectedIn(parse.text) = {N} /\ FollowedByText(parse.text)) => parse.out = N
        /\ ExpectedIn(parse.text) = {} => parse.out = 0

\* C16, as claimed: in src/unnamed/part_000, once PingContext has returned
\* because the context was cancelled and the node has answered Ping, the
\* goroutine running Ping is not left blocked: it can deliver its result and
\* exit.
C16_Claim ==
    \A p \in Callers :
        ( /\ ping[p].pc = "returned" /\ ping[p].res = Canceled
          /\ ping[p].go = "send"
          /\ ping[p].val \in {Nil, Wrap("failed to check node status", NodeError)} )
            => ENABLED SelectRecv(p)

\* caller p's send is answered with code 0 and the step adds 1 to the sequence
C17_Accepted(p) ==
    /\ call[p].pc = "send"
    /\ call'[p].codes = Append(call[p].codes, CodeOK)
    /\ seq' = seq + 1

C17_Step ==
    /\ num' = num
    /\ seq' # seq => \E p \in Callers : C17_Accepted(p) \/ C12_Correction(p)
    /\ \A p \in Callers :
           /\ call'[p].codes = Append(call[p].codes, CodeOK) => seq' = seq + 1
           /\ (~call[p].isRetry /\ call'[p].isRetry) =>
                  seq' = IF getNextSequence(call'[p].firstLog) # 0
                         THEN getNextSequence(call'[p].firstLog) ELSE seq

\* a call about to return an error: the sequence is the one its last attempt
\* was built with, which after a correction is the extracted one
C17_Inv ==
    /\ num = NodeAccNum
    /\ \A p \in Callers :
           (call[p].pc = "ret" /\ call[p].err # Nil) =>
               /\ seq = call[p].txSeq
               /\ (call[p].isRetry /\ getNextSequence(call[p].firstLog) # 0) =>
                      seq = getNextSequence(call[p].firstLog)

\* C17: in src/blockchain.go the local sequence changes in two ways only: a
\* send answered with code 0 adds 1, and a failed first attempt stores the
\* extracted expected sequence when that is not 0; every other step leaves it
\* as it is, so a call that returns an error leaves the sequence it started
\* with or the extracted one, never an incremented one; the account number
\* never changes.
C17_SequenceFrame == []C17_Inv /\ [][C17_Step]_vars

\* a call is about to return an error after its correction and failed retry
C17_Witness ==
    \E p \in Callers :
        /\ call[p].pc = "ret" /\ call[p].isRetry /\ call[p].err # Nil
        /\ Len(call[p].codes) = 2
        /\ seq # 0 /\ seq = getNextSequence(call[p].firstLog)

\* the node treated the retried attempt of frame f as C18 assumes of a node
\* that expects sequence E: a transaction built with E is accepted, one built
\* with another sequence is rejected as a mismatch, at its dry run or its send
C18_NodeExpects(f, E) ==
    IF f.txSeq = E
    THEN f.err = Nil
    ELSE \/ f.err = Wrap("failed to calculate gas", NodeError)
         \/ /\ f.err = <<"failed to broadcast tx: response">>
            /\ Last(f.codes) = ErrWrongSequenceCode

\* C18, as claimed: in src/blockchain.go, when the first attempt of a call is
\* rejected with a mismatch text naming the node's expected sequence E (not
\* 0), and the node rejects other sequences and accepts E, the call returns
\* success through its retry and leaves the local sequence at E + 1.
C18_Claim ==
    impl = "v2" =>
        \A E \in SeqVals \ {0} :
            ( /\ call[1].pc = "ret" /\ call[1].isRetry
              /\ ExpectedIn(call[1].firstLog) = {E}
              /\ C18_NodeExpects(call[1], E) )
                => call[1].err = Nil /\ seq = E + 1

\* C19, as claimed: in src/unnamed/part_000, when refreshSequence has failed
\* the local sequence is the one it was before the refresh, which is the one
\* the rejected attempt's builder was made with (a builder sequence that
\* PrepareTxBuilder left as it was read).
C19_Claim ==
    (impl = "v1" /\ call[1].pc = "fin" /\ ~call[1].fetched) => seq = call[1].txSeq

====
